---- MODULE Spec2Model ----
(***************************************************************************)
(* Transaction safety core of Tec-core-backend: wallet ledger, payment     *)
(* state machine, idempotency gate and rate limiter.                       *)
(*                                                                         *)
(* Each subsystem has its own specification over the variables it owns:    *)
(*   SpecWallet  - tec-wallet-service deposit / withdraw / transfer        *)
(*   SpecPay     - tec-payment-service approve / complete / cancel / fail  *)
(*   SpecIdem    - tec-payment-service idempotency middleware              *)
(*   SpecRate    - tec-payment-service rate limiter                        *)
(*   SpecIdemOutage - the idempotency middleware with a failing store      *)
(*   SpecRateOutage - the rate limiter with a failing store                *)
(*   SpecIdemHeader - the idempotency middleware's header checks           *)
(*   SpecPipeline   - the middleware stack of the /payments routes         *)
(*                                                                         *)
(* The database is PostgreSQL accessed through Prisma.  prisma.$transaction*)
(* is called without an isolationLevel, so transactions run READ COMMITTED:*)
(* every statement reads the latest committed row, findUnique takes no     *)
(* lock, UPDATE takes a row lock that is held until commit or rollback.    *)
(***************************************************************************)
EXTENDS Integers, Sequences, FiniteSets, TLC

\* ------------------------------------------------------------------------
\* Bounds of the wallet model
\* ------------------------------------------------------------------------
MaxWalletReqs == 2
MaxAmount == 2
MaxInitBalance == 2

WalletReqIds == 1..MaxWalletReqs
WalletIds == {"A", "B"}
\* an id for which wallets.findUnique returns null
NoWallet == "none"
AssetInputs == {"USD", "usd", "XYZ"}
Amounts == 1..MaxAmount
InitBalances == 0..MaxInitBalance

VARIABLES
    balance,      \* wallets.balance, committed value, per wallet id
    wreq,         \* in-flight and finished wallet requests, per request slot
    walletAudit,  \* audit_logs table of the wallet service (committed rows)
    ledger,       \* transactions table of the wallet service (committed rows)
    initBalance,  \* the balances the run started from (never written)
    payment,      \* the payments row under study (status "absent": no row)
    preq,         \* in-flight and finished payment requests, per request slot
    payAudit,     \* payment_audit_logs table
    auditDown,    \* TRUE while paymentAuditLog.create throws
    piCalls,      \* number of requests sent to the Pi Network API, per endpoint
    now,          \* Date.now(), in clock ticks
    storeKind,    \* idempotency store backend: "memory" or "redis" (REDIS_URL set)
    idemStore,    \* idempotency store: cache key -> cached response or NoEntry
    ireq,         \* requests passing the idempotency middleware, per slot
    execs,        \* number of executions of the wrapped operation (side-effect counter)
    rlStore,      \* rate-limit store: key -> [count, resetAt] or NoWindow
    rlast,        \* the last request seen by the rate limiter and its answer
    passed,       \* per key: requests passed to next() in the key's current window
    hits,         \* number of requests the rate limiter has handled
    storeDown,    \* TRUE while the Redis idempotency store rejects commands
    pipe          \* the /payments route stack: requests and its limiter's counters

walletVars == <<balance, wreq, walletAudit, ledger, initBalance>>
payVars == <<payment, preq, payAudit, auditDown, piCalls>>
idemVars == <<storeKind, idemStore, ireq, execs, storeDown>>
rateVars == <<rlStore, rlast, passed, hits>>
pipeVars == <<pipe>>
vars == <<walletVars, payVars, idemVars, rateVars, pipeVars, now>>

\* what the actions of one subsystem leave alone
otherThanWallet == <<payVars, idemVars, rateVars, pipeVars, now>>
otherThanPay == <<walletVars, idemVars, rateVars, pipeVars, now>>
otherThanIdem == <<walletVars, payVars, rateVars, pipeVars>>
otherThanRate == <<walletVars, payVars, idemVars, pipeVars>>
otherThanNow == <<walletVars, payVars, idemVars, rateVars, pipeVars>>


\* SUPPORTED_CURRENCIES default 'USD,PI,BTC,ETH'
getSupportedCurrencies == {"USD", "PI", "BTC", "ETH"}

IdleWReq ==
    [pc |-> "idle", op |-> "none", id |-> NoWallet, to |-> NoWallet,
     amount |-> 0, readBal |-> 0, readTo |-> 0, status |-> 0, code |-> "none",
     asset |-> "none"]

\* the row written by writeAuditLog(tx, ...)
writeAuditLog(action, entityId, before, after, amount, r) ==
    [action |-> action, entity |-> "wallet", entityId |-> entityId,
     before |-> before, after |-> after, amount |-> amount, req |-> r]

\* a row of the transactions table
LedgerRow(walletId, type, amount, direction, counterparty, r) ==
    [wallet_id |-> walletId, type |-> type, amount |-> amount,
     direction |-> direction, counterparty |-> counterparty, req |-> r]

\* res.status(st).json({ success: false, error: { code: cd, message } }):
\* an error response carries the code only
ErrorResponse(st, cd) ==
    [IdleWReq EXCEPT !.pc = "done", !.status = st, !.code = cd]

\* (assetType ?? 'USD').toUpperCase(), on the asset codes used here
resolvedAsset(assetType) == IF assetType = "usd" THEN "USD" ELSE assetType

\* variant: no asset code is refused
UnsupportedAsset_Never(asset) == FALSE

\* the asset check shared by deposit, withdraw and transfer:
\* supported.length > 0 && !supported.includes(resolvedAsset)
UnsupportedAsset(asset) ==
    getSupportedCurrencies # {} /\ resolvedAsset(asset) \notin getSupportedCurrencies

\* the request record with the asset code the handler resolved
WithAsset(q, asset) == [q EXCEPT !.asset = resolvedAsset(asset)]

\* variant: the check lets an overdraft of one unit through
withdrawCheckFails_OffByOne(bal, amount) == bal + 1 < amount

\* the balance check of withdraw, on the row read inside the transaction
withdrawCheckFails(bal, amount) == bal < amount

\* variant: the check lets an overdraft of one unit through
transferCheckFails_OffByOne(bal, amount) == bal + 1 < amount

\* the balance check of transfer, on the source row read inside the transaction
transferCheckFails(bal, amount) == bal < amount

WStartable(r) ==
    /\ wreq[r].pc = "idle"
    /\ \A q \in WalletReqIds : q < r => wreq[q].pc # "idle"

\* deposit, from the handler's entry to the awaited tx.wallet.update:
\* asset check, tx.wallet.findUnique, writeAuditLog issued inside the tx.
\* amount > 0 is enforced by the route validator (isFloat min 0.000001).
deposit(r, id, amount, asset) ==
    /\ WStartable(r)
    /\ wreq' = [wreq EXCEPT ![r] = WithAsset(
          IF UnsupportedAsset(asset) THEN ErrorResponse(400, "UNSUPPORTED_CURRENCY")
          ELSE IF id \notin WalletIds THEN ErrorResponse(404, "NOT_FOUND")
          ELSE [IdleWReq EXCEPT !.pc = "update", !.op = "deposit", !.id = id,
                   !.amount = amount, !.readBal = balance[id]],
          asset)]
    /\ UNCHANGED <<balance, walletAudit, ledger, initBalance>>
    /\ UNCHANGED otherThanWallet

\* withdraw, from the handler's entry to the awaited tx.wallet.update:
\* asset check, tx.wallet.findUnique, balance check, writeAuditLog
withdraw(r, id, amount, asset) ==
    /\ WStartable(r)
    /\ wreq' = [wreq EXCEPT ![r] = WithAsset(
          IF UnsupportedAsset(asset) THEN ErrorResponse(400, "UNSUPPORTED_CURRENCY")
          ELSE IF id \notin WalletIds THEN ErrorResponse(404, "NOT_FOUND")
          ELSE IF withdrawCheckFails(balance[id], amount)
          THEN [IdleWReq EXCEPT !.pc = "done", !.op = "withdraw", !.id = id,
                   !.amount = amount, !.status = 422, !.code = "INSUFFICIENT_BALANCE"]
          ELSE [IdleWReq EXCEPT !.pc = "update", !.op = "withdraw", !.id = id,
                   !.amount = amount, !.readBal = balance[id]],
          asset)]
    /\ UNCHANGED <<balance, walletAudit, ledger, initBalance>>
    /\ UNCHANGED otherThanWallet

\* transfer, from the handler's entry to the awaited updates: same-wallet
\* check, asset check, the two findUnique, not-found checks, balance check,
\* the two writeAuditLog calls
transfer(r, fromWalletId, toWalletId, amount, asset) ==
    /\ WStartable(r)
    /\ wreq' = [wreq EXCEPT ![r] = WithAsset(
          IF fromWalletId = toWalletId THEN ErrorResponse(400, "INVALID_TRANSFER")
          ELSE IF UnsupportedAsset(asset) THEN ErrorResponse(400, "UNSUPPORTED_CURRENCY")
          ELSE IF fromWalletId \notin WalletIds \/ toWalletId \notin WalletIds
          THEN ErrorResponse(404, "NOT_FOUND")
          ELSE IF transferCheckFails(balance[fromWalletId], amount)
          THEN [IdleWReq EXCEPT !.pc = "done", !.op = "transfer", !.id = fromWalletId,
                   !.to = toWalletId, !.amount = amount,
                   !.status = 422, !.code = "INSUFFICIENT_BALANCE"]
          ELSE [IdleWReq EXCEPT !.pc = "update", !.op = "transfer", !.id = fromWalletId,
                   !.to = toWalletId, !.amount = amount,
                   !.readBal = balance[fromWalletId], !.readTo = balance[toWalletId]],
          asset)]
    /\ UNCHANGED <<balance, walletAudit, ledger, initBalance>>
    /\ UNCHANGED otherThanWallet

\* tx.wallet.update({ balance: { increment | decrement: amount } }) is one
\* UPDATE ... SET balance = balance +/- amount: it waits for the row lock and
\* applies the delta to the latest committed value, whatever findUnique read.
\* The lock is held until commit, so the delta takes effect on the value
\* committed at that point.
\* variant: the update stores the balance computed from the row findUnique
\* returned
BalanceAfterUpdate_FromRead(bal, q) ==
    IF q.op = "deposit" THEN [bal EXCEPT ![q.id] = q.readBal + q.amount]
    ELSE IF q.op = "withdraw" THEN [bal EXCEPT ![q.id] = q.readBal - q.amount]
    ELSE [bal EXCEPT ![q.id] = q.readBal - q.amount, ![q.to] = q.readTo + q.amount]

\* variant: a transfer debits the source and leaves the destination alone
BalanceAfterUpdate_DebitOnly(bal, q) ==
    IF q.op = "deposit" THEN [bal EXCEPT ![q.id] = @ + q.amount]
    ELSE [bal EXCEPT ![q.id] = @ - q.amount]

BalanceAfterUpdate(bal, q) ==
    IF q.op = "deposit" THEN [bal EXCEPT ![q.id] = @ + q.amount]
    ELSE IF q.op = "withdraw" THEN [bal EXCEPT ![q.id] = @ - q.amount]
    ELSE [bal EXCEPT ![q.id] = @ - q.amount, ![q.to] = @ + q.amount]

\* the audit rows the transaction wrote before its updates, computed from
\* the rows findUnique returned
AuditRowsOf(r) ==
    LET q == wreq[r] IN
    IF q.op = "deposit"
    THEN {writeAuditLog("deposit", q.id, q.readBal, q.readBal + q.amount, q.amount, r)}
    ELSE IF q.op = "withdraw"
    THEN {writeAuditLog("withdraw", q.id, q.readBal, q.readBal - q.amount, q.amount, r)}
    ELSE {writeAuditLog("transfer", q.id, q.readBal, q.readBal - q.amount, q.amount, r),
          writeAuditLog("transfer", q.to, q.readTo, q.readTo + q.amount, q.amount, r)}

\* the rows of tx.transaction.create
LedgerRowsOf(r) ==
    LET q == wreq[r] IN
    IF q.op = "deposit" THEN {LedgerRow(q.id, "deposit", q.amount, "none", NoWallet, r)}
    ELSE IF q.op = "withdraw" THEN {LedgerRow(q.id, "withdrawal", q.amount, "none", NoWallet, r)}
    ELSE {LedgerRow(q.id, "transfer", q.amount, "debit", q.to, r),
          LedgerRow(q.to, "transfer", q.amount, "credit", q.id, r)}

\* tx.wallet.update, tx.transaction.create and the commit of the
\* transaction; the response is 200 with the updated rows
walletCommit(r) ==
    /\ wreq[r].pc = "update"
    /\ balance' = BalanceAfterUpdate(balance, wreq[r])
    /\ walletAudit' = walletAudit \cup AuditRowsOf(r)
    /\ ledger' = ledger \cup LedgerRowsOf(r)
    /\ wreq' = [wreq EXCEPT ![r] =
          [@ EXCEPT !.pc = "done", !.status = 200, !.code = "OK",
                    !.readBal = 0, !.readTo = 0]]
    /\ UNCHANGED initBalance
    /\ UNCHANGED otherThanWallet

\* variant: the audit rows are inserted through the global client, outside
\* the transaction, and survive its rollback
txRollback_KeepsRows(rows) == rows

\* what is left of the rows an aborted prisma.$transaction callback
\* inserted through its tx client: nothing
txRollback(rows) == {}

\* a statement of the open transaction fails (connection error, deadlock,
\* transaction timeout): the transaction is rolled back, with the audit rows
\* it had inserted, and the catch block answers err.statusCode ?? 500
walletTxError(r) ==
    /\ wreq[r].pc = "update"
    /\ wreq' = [wreq EXCEPT ![r] = ErrorResponse(500, "INTERNAL_ERROR")]
    /\ walletAudit' = walletAudit \cup txRollback(AuditRowsOf(r))
    /\ UNCHANGED <<balance, ledger, initBalance>>
    /\ UNCHANGED otherThanWallet

WalletInitVars ==
    /\ balance \in [WalletIds -> InitBalances]
    /\ initBalance = balance
    /\ wreq = [r \in WalletReqIds |-> IdleWReq]
    /\ walletAudit = {}
    /\ ledger = {}

WalletNext ==
    \/ \E r \in WalletReqIds, id \in WalletIds \cup {NoWallet},
          amount \in Amounts, asset \in AssetInputs : deposit(r, id, amount, asset)
    \/ \E r \in WalletReqIds, id \in WalletIds \cup {NoWallet},
          amount \in Amounts, asset \in AssetInputs : withdraw(r, id, amount, asset)
    \/ \E r \in WalletReqIds, id \in WalletIds \cup {NoWallet},
          to \in WalletIds \cup {NoWallet},
          amount \in Amounts, asset \in AssetInputs : transfer(r, id, to, amount, asset)
    \/ \E r \in WalletReqIds : walletCommit(r)
    \/ \E r \in WalletReqIds : walletTxError(r)

\* ------------------------------------------------------------------------
\* Payment state machine (tec-payment-service)
\* ------------------------------------------------------------------------
MaxPayReqs == 3

PayReqIds == 1..MaxPayReqs
Owner == "u1"
Actors == {"u1", "u2"}
\* the create requests of a run, <<amount, payment_method>>: a Pi payment
\* and a card payment of different amounts
CreateInputs == {<<1, "pi">>, <<2, "card">>}
Statuses == {"created", "approved", "completed", "cancelled", "failed"}
TerminalStatuses == {"completed", "cancelled", "failed"}
PiOutcomes == {"ok", "PI_CONFIG_ERROR", "PI_FAILED", "PI_TIMEOUT", "PI_NETWORK_ERROR"}

\* variant: the lifecycle with the approval stage optional
ALLOWED_TRANSITIONS_DirectConfirm(from) ==
    IF from = "created" THEN {"approved", "completed", "cancelled", "failed"}
    ELSE IF from = "approved" THEN {"completed", "cancelled", "failed"}
    ELSE {}

ALLOWED_TRANSITIONS(from) ==
    IF from = "created" THEN {"approved", "cancelled", "failed"}
    ELSE IF from = "approved" THEN {"completed", "cancelled", "failed"}
    ELSE {}

\* variant: a payment that has left the table's statuses may go anywhere
isTransitionAllowed_FromTerminal(from, to) ==
    to \in ALLOWED_TRANSITIONS(from) \/ from \in TerminalStatuses

\* variant: a repeated request for the status the payment already has passes
isTransitionAllowed_SameStatus(from, to) ==
    to \in ALLOWED_TRANSITIONS(from) \/ from = to

isTransitionAllowed(from, to) == to \in ALLOWED_TRANSITIONS(from)

NoMeta == [transaction_id |-> "none", failure_reason |-> "none"]

AbsentPayment ==
    [status |-> "absent", amount |-> 0, user_id |-> "none", payment_method |-> "none",
     pi_payment_id |-> "none", metadata |-> NoMeta,
     approved_at |-> FALSE, completed_at |-> FALSE,
     cancelled_at |-> FALSE, failed_at |-> FALSE]

\* prisma.payment.create in createPayment
NewPayment(amount, method) ==
    [AbsentPayment EXCEPT !.status = "created", !.amount = amount,
                          !.user_id = Owner, !.payment_method = method]

IdlePReq ==
    [pc |-> "idle", op |-> "none", actor |-> "none", from |-> "none",
     meta |-> NoMeta, status |-> 0, code |-> "none"]

TargetOf(op) ==
    IF op = "approve" THEN "approved"
    ELSE IF op = "complete" THEN "completed"
    ELSE IF op = "cancel" THEN "cancelled"
    ELSE "failed"

\* one row of payment_audit_logs
AuditRow(userId, eventType, from, to, r) ==
    [userId |-> userId, paymentId |-> "p1", eventType |-> eventType,
     from |-> from, to |-> to, req |-> r]

\* variant: the audit row is never inserted
createAuditLog_Dropped(log, row) == log

\* createAuditLog: the insert is attempted once; a failure is logged and
\* swallowed
createAuditLog(log, row) == IF auditDown THEN log ELSE log \cup {row}

\* res.status(st).json({ success: false, error: { code: cd } })
PayError(st, cd) == [IdlePReq EXCEPT !.pc = "done", !.status = st, !.code = cd]

\* variant: the 409 answer is replaced by a 500 when the audit insert fails
InvalidStatus_AuditFailurePropagates(op, from, actor) ==
    IF auditDown THEN PayError(500, "INTERNAL_ERROR")
    ELSE [IdlePReq EXCEPT !.pc = "done", !.op = op, !.from = from, !.actor = actor,
                          !.status = 409, !.code = "INVALID_STATUS"]

\* the 409 answer to a transition the guard table does not allow
InvalidStatus(op, from, actor) ==
    [IdlePReq EXCEPT !.pc = "done", !.op = op, !.from = from, !.actor = actor,
                     !.status = 409, !.code = "INVALID_STATUS"]

\* the 200 answer of a transition; from is the status its guard accepted
PayOk(op, from) ==
    [IdlePReq EXCEPT !.pc = "done", !.op = op, !.from = from, !.status = 200, !.code = "OK"]

PStartable(r) ==
    /\ preq[r].pc = "idle"
    /\ \A q \in PayReqIds : q < r => preq[q].pc # "idle"

\* createPayment: the row is inserted with status 'created'; the
\* PAYMENT_INITIATED audit row is written fire-and-forget
createPayment(amount, method) ==
    /\ payment.status = "absent"
    /\ payment' = NewPayment(amount, method)
    /\ payAudit' = createAuditLog(payAudit, AuditRow(Owner, "PAYMENT_INITIATED", "none", "created", 0))
    /\ UNCHANGED <<preq, auditDown, piCalls>>
    /\ UNCHANGED otherThanPay

\* ---- approvePayment -----------------------------------------------------
\* findUnique outside any transaction, guard, then either the Pi call or
\* the update
approveRead(r, actor) ==
    /\ PStartable(r)
    /\ IF payment.status = "absent"
       THEN /\ preq' = [preq EXCEPT ![r] = PayError(404, "NOT_FOUND")]
            /\ UNCHANGED payAudit
       ELSE IF ~isTransitionAllowed(payment.status, "approved")
       THEN /\ preq' = [preq EXCEPT ![r] = InvalidStatus("approve", payment.status, actor)]
            /\ payAudit' = createAuditLog(payAudit,
                  AuditRow(payment.user_id, "INVALID_TRANSITION_ATTEMPT",
                           payment.status, "approved", r))
       ELSE /\ preq' = [preq EXCEPT ![r] =
                  [IdlePReq EXCEPT !.op = "approve", !.from = payment.status,
                      !.pc = IF payment.payment_method = "pi" THEN "pi" ELSE "write"]]
            /\ UNCHANGED payAudit
    /\ UNCHANGED <<payment, auditDown, piCalls>>
    /\ UNCHANGED otherThanPay

\* variant: a timeout of the Pi call is recorded as a definitive failure
rowAfterPiError_TimeoutFails(row, outcome) ==
    IF outcome = "PI_TIMEOUT" THEN [row EXCEPT !.status = "failed", !.failed_at = TRUE]
    ELSE row

\* the catch block around the Pi call answers piErr.httpStatus / piErr.code
\* and returns: no statement touches the payment row
rowAfterPiError(row, outcome) == row

\* piApprovePayment: PI_CONFIG_ERROR is thrown before any request is sent
approvePi(r, outcome) ==
    /\ preq[r].pc = "pi" /\ preq[r].op = "approve"
    /\ piCalls' = IF outcome = "PI_CONFIG_ERROR" THEN piCalls
                  ELSE [piCalls EXCEPT !.approve = @ + 1]
    /\ preq' = [preq EXCEPT ![r] =
          IF outcome = "ok" THEN [@ EXCEPT !.pc = "write"]
          ELSE PayError(IF outcome = "PI_CONFIG_ERROR" THEN 500
                        ELSE IF outcome = "PI_TIMEOUT" THEN 504 ELSE 502,
                        IF outcome = "PI_FAILED" THEN "PI_APPROVE_FAILED" ELSE outcome)]
    /\ payment' = IF outcome = "ok" THEN payment ELSE rowAfterPiError(payment, outcome)
    /\ UNCHANGED <<payAudit, auditDown>>
    /\ UNCHANGED otherThanPay

\* the data of prisma.payment.update in approvePayment
\* variant: the update of approvePayment also writes payment_method
ApprovedRow_WritesMethod(row) ==
    [row EXCEPT !.status = "approved", !.pi_payment_id = "pi1", !.approved_at = TRUE,
                !.payment_method = "pi"]

\* the data of prisma.payment.update in approvePayment
ApprovedRow(row) ==
    [row EXCEPT !.status = "approved", !.pi_payment_id = "pi1", !.approved_at = TRUE]

approveWrite(r) ==
    /\ preq[r].pc = "write" /\ preq[r].op = "approve"
    /\ payment' = ApprovedRow(payment)
    /\ payAudit' = createAuditLog(payAudit,
          AuditRow(payment.user_id, "PAYMENT_APPROVED", preq[r].from, "approved", r))
    /\ preq' = [preq EXCEPT ![r] = PayOk("approve", preq[r].from)]
    /\ UNCHANGED <<auditDown, piCalls>>
    /\ UNCHANGED otherThanPay

\* ---- completePayment ----------------------------------------------------
\* pre-flight findUnique outside the transaction and its guard
completePreflight(r, actor) ==
    /\ PStartable(r)
    /\ IF payment.status = "absent"
       THEN /\ preq' = [preq EXCEPT ![r] = PayError(404, "NOT_FOUND")]
            /\ UNCHANGED payAudit
       ELSE IF ~isTransitionAllowed(payment.status, "completed")
       THEN /\ preq' = [preq EXCEPT ![r] = InvalidStatus("complete", payment.status, actor)]
            /\ payAudit' = createAuditLog(payAudit,
                  AuditRow(payment.user_id, "INVALID_TRANSITION_ATTEMPT",
                           payment.status, "completed", r))
       ELSE /\ preq' = [preq EXCEPT ![r] =
                  [IdlePReq EXCEPT !.op = "complete", !.from = payment.status,
                      !.actor = actor,
                      !.pc = IF payment.payment_method = "pi" /\ payment.pi_payment_id # "none"
                             THEN "pi" ELSE "txread"]]
            /\ UNCHANGED payAudit
    /\ UNCHANGED <<payment, auditDown, piCalls>>
    /\ UNCHANGED otherThanPay

\* piCompletePayment
completePi(r, outcome) ==
    /\ preq[r].pc = "pi" /\ preq[r].op = "complete"
    /\ piCalls' = IF outcome = "PI_CONFIG_ERROR" THEN piCalls
                  ELSE [piCalls EXCEPT !.complete = @ + 1]
    /\ preq' = [preq EXCEPT ![r] =
          IF outcome = "ok" THEN [@ EXCEPT !.pc = "txread"]
          ELSE PayError(IF outcome = "PI_CONFIG_ERROR" THEN 500
                        ELSE IF outcome = "PI_TIMEOUT" THEN 504 ELSE 502,
                        IF outcome = "PI_FAILED" THEN "PI_COMPLETE_FAILED" ELSE outcome)]
    /\ payment' = IF outcome = "ok" THEN payment ELSE rowAfterPiError(payment, outcome)
    /\ UNCHANGED <<payAudit, auditDown>>
    /\ UNCHANGED otherThanPay

\* tx.payment.findUnique and the guard inside prisma.$transaction; a thrown
\* INVALID_TRANSITION is answered by the catch block, which records
\* req.userId
completeTxRead(r) ==
    /\ preq[r].pc = "txread" /\ preq[r].op = "complete"
    /\ IF ~isTransitionAllowed(payment.status, "completed")
       THEN /\ preq' = [preq EXCEPT ![r] =
                  InvalidStatus("complete", payment.status, preq[r].actor)]
            /\ payAudit' = createAuditLog(payAudit,
                  AuditRow(preq[r].actor, "INVALID_TRANSITION_ATTEMPT",
                           payment.status, "completed", r))
       ELSE /\ preq' = [preq EXCEPT ![r] =
                  [@ EXCEPT !.pc = "txwrite", !.from = payment.status,
                            !.meta = payment.metadata, !.actor = "none"]]
            /\ UNCHANGED payAudit
    /\ UNCHANGED <<payment, auditDown, piCalls>>
    /\ UNCHANGED otherThanPay

\* variant: the update of completePayment also writes amount
CompletedRow_WritesAmount(row, meta) ==
    [row EXCEPT !.status = "completed", !.completed_at = TRUE, !.amount = 0,
                !.metadata = [meta EXCEPT !.transaction_id = "tx1"]]

\* the data of tx.payment.update in completePayment; metadata is rebuilt
\* from the row the transaction read
CompletedRow(row, meta) ==
    [row EXCEPT !.status = "completed", !.completed_at = TRUE,
                !.metadata = [meta EXCEPT !.transaction_id = "tx1"]]

\* tx.payment.update and commit, then the PAYMENT_CONFIRMED audit row
completeTxWrite(r) ==
    /\ preq[r].pc = "txwrite" /\ preq[r].op = "complete"
    /\ payment' = CompletedRow(payment, preq[r].meta)
    /\ payAudit' = createAuditLog(payAudit,
          AuditRow(payment.user_id, "PAYMENT_CONFIRMED", preq[r].from, "completed", r))
    /\ preq' = [preq EXCEPT ![r] = PayOk("complete", preq[r].from)]
    /\ UNCHANGED <<auditDown, piCalls>>
    /\ UNCHANGED otherThanPay

\* ---- cancelPayment ------------------------------------------------------
cancelTxRead(r, actor) ==
    /\ PStartable(r)
    /\ IF payment.status = "absent"
       THEN /\ preq' = [preq EXCEPT ![r] = PayError(404, "NOT_FOUND")]
            /\ UNCHANGED payAudit
       ELSE IF ~isTransitionAllowed(payment.status, "cancelled")
       THEN /\ preq' = [preq EXCEPT ![r] = InvalidStatus("cancel", payment.status, actor)]
            /\ payAudit' = createAuditLog(payAudit,
                  AuditRow(actor, "INVALID_TRANSITION_ATTEMPT",
                           payment.status, "cancelled", r))
       ELSE /\ preq' = [preq EXCEPT ![r] =
                  [IdlePReq EXCEPT !.op = "cancel", !.from = payment.status,
                                   !.pc = "txwrite"]]
            /\ UNCHANGED payAudit
    /\ UNCHANGED <<payment, auditDown, piCalls>>
    /\ UNCHANGED otherThanPay

\* the data of tx.payment.update in cancelPayment
CancelledRow(row) == [row EXCEPT !.status = "cancelled", !.cancelled_at = TRUE]

cancelTxWrite(r) ==
    /\ preq[r].pc = "txwrite" /\ preq[r].op = "cancel"
    /\ payment' = CancelledRow(payment)
    /\ payAudit' = createAuditLog(payAudit,
          AuditRow(payment.user_id, "PAYMENT_CANCELLED", preq[r].from, "cancelled", r))
    /\ preq' = [preq EXCEPT ![r] = PayOk("cancel", preq[r].from)]
    /\ UNCHANGED <<auditDown, piCalls>>
    /\ UNCHANGED otherThanPay

\* ---- failPayment --------------------------------------------------------
failRead(r, actor) ==
    /\ PStartable(r)
    /\ IF payment.status = "absent"
       THEN /\ preq' = [preq EXCEPT ![r] = PayError(404, "NOT_FOUND")]
            /\ UNCHANGED payAudit
       ELSE IF ~isTransitionAllowed(payment.status, "failed")
       THEN /\ preq' = [preq EXCEPT ![r] = InvalidStatus("fail", payment.status, actor)]
            /\ payAudit' = createAuditLog(payAudit,
                  AuditRow(payment.user_id, "INVALID_TRANSITION_ATTEMPT",
                           payment.status, "failed", r))
       ELSE /\ preq' = [preq EXCEPT ![r] =
                  [IdlePReq EXCEPT !.op = "fail", !.from = payment.status,
                                   !.meta = payment.metadata, !.pc = "write"]]
            /\ UNCHANGED payAudit
    /\ UNCHANGED <<payment, auditDown, piCalls>>
    /\ UNCHANGED otherThanPay

\* the data of prisma.payment.update in failPayment
FailedRow(row, meta) ==
    [row EXCEPT !.status = "failed", !.failed_at = TRUE,
                !.metadata = [meta EXCEPT !.failure_reason = "r1"]]

failWrite(r) ==
    /\ preq[r].pc = "write" /\ preq[r].op = "fail"
    /\ payment' = FailedRow(payment, preq[r].meta)
    /\ payAudit' = createAuditLog(payAudit,
          AuditRow(payment.user_id, "PAYMENT_FAILED", preq[r].from, "failed", r))
    /\ preq' = [preq EXCEPT ![r] = PayOk("fail", preq[r].from)]
    /\ UNCHANGED <<auditDown, piCalls>>
    /\ UNCHANGED otherThanPay

approvePayment(r) ==
    \/ \E actor \in Actors : approveRead(r, actor)
    \/ \E outcome \in PiOutcomes : approvePi(r, outcome)
    \/ approveWrite(r)

completePayment(r) ==
    \/ \E actor \in Actors : completePreflight(r, actor)
    \/ \E outcome \in PiOutcomes : completePi(r, outcome)
    \/ completeTxRead(r)
    \/ completeTxWrite(r)

cancelPayment(r) ==
    \/ \E actor \in Actors : cancelTxRead(r, actor)
    \/ cancelTxWrite(r)

failPayment(r) ==
    \/ \E actor \in Actors : failRead(r, actor)
    \/ failWrite(r)

\* the audit table becomes unavailable or available again
AuditStoreFlip ==
    /\ auditDown' = ~auditDown
    /\ UNCHANGED <<payment, preq, payAudit, piCalls>>
    /\ UNCHANGED otherThanPay

PayInitVars ==
    /\ payment = AbsentPayment
    /\ preq = [r \in PayReqIds |-> IdlePReq]
    /\ payAudit = {}
    /\ auditDown = FALSE
    /\ piCalls = [approve |-> 0, complete |-> 0]

PayNext ==
    \/ \E in \in CreateInputs : createPayment(in[1], in[2])
    \/ \E r \in PayReqIds : approvePayment(r)
    \/ \E r \in PayReqIds : completePayment(r)
    \/ \E r \in PayReqIds : cancelPayment(r)
    \/ \E r \in PayReqIds : failPayment(r)
    \/ AuditStoreFlip

\* ------------------------------------------------------------------------
\* Idempotency middleware (tec-payment-service)
\* ------------------------------------------------------------------------
MaxIdemReqs == 2
MaxNow == 3
\* IDEMPOTENCY_TTL_MS, in clock ticks
IdemTtl == 1

IdemReqIds == 1..MaxIdemReqs
\* createIdempotencyStore: Redis when REDIS_URL is set, else in-memory
StoreKinds == {"memory", "redis"}
IdemKeys == {"K1", "K2"}
NoEntry == [statusCode |-> 0, body |-> 0, expiresAt |-> 0 - 1]
NoResponse == [statusCode |-> 0, body |-> 0]
\* status codes the wrapped handler answers with
HandlerStatuses == {201, 422}

IdleIReq ==
    [pc |-> "idle", user |-> "none", key |-> "none", ck |-> <<>>, code |-> "none",
     miss |-> FALSE, exec |-> FALSE,
     resp |-> NoResponse, after |-> {}, getAt |-> 0, respAt |-> 0]

\* the characters of the identifiers: user ids are the ids issued by the
\* auth service, keys are the client's header values
charsOf(s) ==
    CASE s = "u1" -> <<"u", "1">>
      [] s = "u2" -> <<"u", "2">>
      [] s = "K1" -> <<"K", "1">>
      [] s = "K2" -> <<"K", "2">>
      [] s = "long" -> <<"a256">>

\* variant: the cache key is the idempotency key alone
cacheKeyOf_KeyOnly(userId, idempotencyKey) == charsOf(idempotencyKey)

\* const cacheKey = `${userId}:${idempotencyKey}`
cacheKeyOf(userId, idempotencyKey) ==
    charsOf(userId) \o <<":">> \o charsOf(idempotencyKey)

\* a request without the Idempotency-Key header, and a key of 256 characters
NoHeader == "absent"
LongKey == "long"
RawKeys == IdemKeys \cup {NoHeader, LongKey}

\* idempotencyKey.length
keyLength(key) == IF key = LongKey THEN 256 ELSE Len(charsOf(key))

\* variant: no upper limit on the key's length
keyCheck_NoLimit(rawKey) ==
    IF rawKey = NoHeader THEN "MISSING_IDEMPOTENCY_KEY" ELSE "ok"

\* the two header checks of idempotency(): !rawKey, then
\* !idempotencyKey || idempotencyKey.length > 255
keyCheck(rawKey) ==
    IF rawKey = NoHeader THEN "MISSING_IDEMPOTENCY_KEY"
    ELSE IF keyLength(rawKey) = 0 \/ keyLength(rawKey) > 255 THEN "INVALID_IDEMPOTENCY_KEY"
    ELSE "ok"

CacheKeys == {cacheKeyOf(u, k) : u \in Actors, k \in IdemKeys \cup {LongKey}}

\* variant: get never finds an entry
storeGet_AlwaysMiss(store, ck, t) == NoEntry

\* variant: get returns an entry whatever its expiresAt
storeGet_NeverExpires(store, ck, t) == store[ck]

\* store.get: an entry is returned unless none exists or Date.now() > expiresAt
storeGet(store, ck, t) ==
    IF store[ck] = NoEntry \/ t > store[ck].expiresAt THEN NoEntry ELSE store[ck]

\* InMemoryIdempotencyStore.get deletes an expired entry; Redis drops it itself
storeAfterGet(store, ck, t) ==
    IF store[ck] # NoEntry /\ t > store[ck].expiresAt
    THEN [store EXCEPT ![ck] = NoEntry] ELSE store

\* variant: only success responses are stored
storeSet_SuccessOnly(kind, store, ck, entry, t) ==
    IF entry.statusCode >= 400 THEN store
    ELSE IF kind = "memory" THEN [store EXCEPT ![ck] = entry]
    ELSE IF storeGet(store, ck, t) = NoEntry /\ entry.expiresAt > t
         THEN [store EXCEPT ![ck] = entry]
         ELSE store

\* store.set: Map.set for the in-memory store, SET ... PX ttl NX for Redis
storeSet(kind, store, ck, entry, t) ==
    IF kind = "memory" THEN [store EXCEPT ![ck] = entry]
    ELSE IF storeGet(store, ck, t) = NoEntry /\ entry.expiresAt > t
         THEN [store EXCEPT ![ck] = entry]
         ELSE store

\* idempotency(): key and user resolved, await _store.get(cacheKey); a hit
\* replays the cached status and body, a miss installs the res.json
\* interceptor and calls next()
idemGet(r, userId, key) ==
    /\ ireq[r].pc = "idle"
    /\ \A q \in IdemReqIds : q < r => ireq[q].pc # "idle"
    /\ keyCheck(key) = "ok"
    /\ ~storeDown
    /\ LET ck == cacheKeyOf(userId, key)
           cached == storeGet(idemStore, ck, now)
           seen == {q \in IdemReqIds : ireq[q].pc = "done" /\ ireq[q].ck = ck}
       IN
       /\ idemStore' = IF storeKind = "memory" THEN storeAfterGet(idemStore, ck, now)
                       ELSE idemStore
       /\ ireq' = [ireq EXCEPT ![r] =
             IF cached # NoEntry
             THEN [IdleIReq EXCEPT !.pc = "done", !.user = userId, !.key = key,
                      !.ck = ck, !.after = seen,
                      !.getAt = now, !.respAt = now,
                      !.resp = [statusCode |-> cached.statusCode, body |-> cached.body]]
             ELSE [IdleIReq EXCEPT !.pc = "handler", !.user = userId, !.key = key,
                      !.ck = ck, !.after = seen,
                      !.getAt = now,
                      !.miss = TRUE]]
    /\ UNCHANGED <<storeKind, execs, storeDown, now>>
    /\ UNCHANGED otherThanIdem

\* idempotency() on a request whose header fails a check: 400 with the
\* check's error code, and return; next() is not called and the store is
\* not touched
idemBadKey(r, rawKey) ==
    /\ ireq[r].pc = "idle"
    /\ \A q \in IdemReqIds : q < r => ireq[q].pc # "idle"
    /\ keyCheck(rawKey) # "ok"
    /\ ireq' = [ireq EXCEPT ![r] =
          [IdleIReq EXCEPT !.pc = "done", !.key = rawKey, !.code = keyCheck(rawKey),
                           !.getAt = now, !.respAt = now,
                           !.resp = [statusCode |-> 400, body |-> 0]]]
    /\ UNCHANGED <<storeKind, idemStore, execs, storeDown, now>>
    /\ UNCHANGED otherThanIdem

\* what the caller gets when the promise returned by idempotency() rejects:
\* no response at all (Express 4 leaves the rejection unhandled, status 0)
\* or the 500 of the error middleware (Express 5 forwards the rejection)
RejectedMiddlewareAnswers == {0, 500}

\* idempotency() while the store rejects commands: await _store.get(cacheKey)
\* throws, nothing in idempotency() catches it, and next() is never called
idemGetFails(r, userId, key, answer) ==
    /\ ireq[r].pc = "idle"
    /\ \A q \in IdemReqIds : q < r => ireq[q].pc # "idle"
    /\ storeDown
    /\ ireq' = [ireq EXCEPT ![r] =
          [IdleIReq EXCEPT !.pc = "done", !.user = userId, !.key = key,
                           !.ck = cacheKeyOf(userId, key),
                           !.getAt = now, !.respAt = now,
                           !.resp = [statusCode |-> answer, body |-> 0]]]
    /\ UNCHANGED <<storeKind, idemStore, execs, storeDown, now>>
    /\ UNCHANGED otherThanIdem

\* the wrapped handler runs and answers through the intercepted res.json:
\* the entry is handed to _store.set and the body is sent; a rejected set
\* is logged by the .catch and changes nothing
idemHandler(r, statusCode) ==
    /\ ireq[r].pc = "handler"
    /\ LET body == IF statusCode = 201 THEN execs + 1 ELSE 0
           entry == [statusCode |-> statusCode, body |-> body,
                     expiresAt |-> now + IdemTtl]
       IN
       /\ execs' = execs + 1
       /\ idemStore' = IF storeDown THEN idemStore
                       ELSE storeSet(storeKind, idemStore, ireq[r].ck, entry, now)
       /\ ireq' = [ireq EXCEPT ![r] =
             [@ EXCEPT !.pc = "done", !.exec = TRUE, !.respAt = now,
                       !.resp = [statusCode |-> statusCode, body |-> body]]]
    /\ UNCHANGED <<storeKind, storeDown, now>>
    /\ UNCHANGED otherThanIdem

idempotency(r) ==
    \/ \E userId \in Actors, key \in IdemKeys : idemGet(r, userId, key)
    \/ \E userId \in Actors, key \in IdemKeys, answer \in RejectedMiddlewareAnswers :
          idemGetFails(r, userId, key, answer)
    \/ \E statusCode \in HandlerStatuses : idemHandler(r, statusCode)

\* the Redis server becomes unreachable or reachable again; with
\* enableOfflineQueue false every command fails at once while it is down.
\* The in-memory store cannot fail.
StoreFlip ==
    /\ storeKind = "redis"
    /\ storeDown' = ~storeDown
    /\ UNCHANGED <<storeKind, idemStore, ireq, execs, now>>
    /\ UNCHANGED otherThanIdem

\* the clock advances
Tick ==
    /\ now < MaxNow
    /\ now' = now + 1
    /\ UNCHANGED otherThanNow

IdemInitVars ==
    /\ storeKind \in StoreKinds
    /\ idemStore = [ck \in CacheKeys |-> NoEntry]
    /\ ireq = [r \in IdemReqIds |-> IdleIReq]
    /\ execs = 0
    /\ storeDown = FALSE

\* the store is reachable throughout
IdemNext ==
    \/ \E userId \in Actors, key \in IdemKeys, r \in IdemReqIds : idemGet(r, userId, key)
    \/ \E statusCode \in HandlerStatuses, r \in IdemReqIds : idemHandler(r, statusCode)
    \/ Tick

\* requests with any header: none, a usable key, a key that is too long
IdemHeaderNext ==
    \/ \E rawKey \in RawKeys, r \in IdemReqIds : idemBadKey(r, rawKey)
    \/ \E userId \in Actors, rawKey \in RawKeys \ {NoHeader}, r \in IdemReqIds :
          idemGet(r, userId, rawKey)
    \/ \E statusCode \in HandlerStatuses, r \in IdemReqIds : idemHandler(r, statusCode)
    \/ Tick

\* the store may fail and recover at any time
IdemOutageNext ==
    \/ \E r \in IdemReqIds : idempotency(r)
    \/ StoreFlip
    \/ Tick

\* ------------------------------------------------------------------------
\* Rate limiter (tec-payment-service, createRateLimiter)
\* ------------------------------------------------------------------------
\* maxRequests and windowMs of the limiter under study, the clock tick in
\* milliseconds, and the number of requests of a run
MaxRequests == 2
TickMs == 500
WindowTicks == 2
MaxHits == 5

windowMs == WindowTicks * TickMs
Ips == {"ip1", "ip2"}
\* req.userId ?? req.body?.userId ?? req.query?.userId ?? 'anonymous'
RateUsers == {"u1", "anonymous"}
RateKeys == Ips \X RateUsers
NoWindow == [count |-> 0, resetAt |-> 0 - 1]
NoRequest == [key |-> <<"none", "none">>, status |-> 0, code |-> "none", retryAfter |-> 0]

\* const key = `rl:${ip}:${userId}`
rateKeyOf(ip, userId) == <<ip, userId>>

\* the window is over when Date.now() > entry.resetAt
WindowOver(entry, t) == entry = NoWindow \/ t > entry.resetAt

\* variant: a new window goes on counting from the previous window's count
increment_KeepsCount(store, key, t) ==
    IF WindowOver(store[key], t)
    THEN [store EXCEPT ![key] = [count |-> store[key].count + 1, resetAt |-> t + windowMs]]
    ELSE [store EXCEPT ![key].count = @ + 1]

\* variant: one counter shared by all keys that have a window
increment_SharedCount(store, key, t) ==
    [k \in DOMAIN store |->
        IF k = key
        THEN IF WindowOver(store[k], t) THEN [count |-> 1, resetAt |-> t + windowMs]
             ELSE [store[k] EXCEPT !.count = @ + 1]
        ELSE IF store[k] = NoWindow THEN store[k]
             ELSE [store[k] EXCEPT !.count = @ + 1]]

\* InMemoryStore.increment
increment(store, key, t) ==
    IF WindowOver(store[key], t)
    THEN [store EXCEPT ![key] = [count |-> 1, resetAt |-> t + windowMs]]
    ELSE [store EXCEPT ![key].count = @ + 1]

\* variant: the script sets the expiry on every hit
redisIncrement_ExtendsWindow(store, key, t) ==
    IF store[key] = NoWindow \/ t >= store[key].resetAt
    THEN [store EXCEPT ![key] = [count |-> 1, resetAt |-> t + windowMs]]
    ELSE [store EXCEPT ![key] = [count |-> @.count + 1, resetAt |-> t + windowMs]]

\* RedisStore.increment: INCR, PEXPIRE on the first hit, and
\* resetAt = Date.now() + pttl; Redis drops the key when its TTL runs out
redisIncrement(store, key, t) ==
    IF store[key] = NoWindow \/ t >= store[key].resetAt
    THEN [store EXCEPT ![key] = [count |-> 1, resetAt |-> t + windowMs]]
    ELSE [store EXCEPT ![key].count = @ + 1]

\* createStore: RedisStore when REDIS_URL is set, else InMemoryStore
storeIncrement(kind, store, key, t) ==
    IF kind = "redis" THEN redisIncrement(store, key, t) ELSE increment(store, key, t)

\* variant: a store error rejects the request
afterStoreError_FailClosed(key) ==
    [key |-> key, status |-> 429, code |-> "RATE_LIMIT_EXCEEDED", retryAfter |-> 0]

\* catch (err): the error is logged and next() is called
afterStoreError(key) ==
    [key |-> key, status |-> 200, code |-> "next", retryAfter |-> 0]

\* variant: off by one, one request more than the limit is let through
OverLimit_OffByOne(count) == count > MaxRequests + 1

\* count > maxRequests
OverLimit(count) == count > MaxRequests

\* Math.ceil(ms / 1000)
CeilSeconds(ms) == IF ms % 1000 = 0 THEN ms \div 1000 ELSE (ms \div 1000) + 1

\* the middleware built by createRateLimiter: one increment, then either
\* the 429 answer with Retry-After or next(); when the increment throws
\* (the Redis store while the server is unreachable) the catch block runs
rateLimiter(ip, userId) ==
    /\ hits < MaxHits
    /\ hits' = hits + 1
    /\ LET key == rateKeyOf(ip, userId)
           store2 == storeIncrement(storeKind, rlStore, key, now * TickMs)
           fresh == store2[key].count = 1
           e == store2[key]
       IN
       IF storeDown
       THEN /\ rlast' = afterStoreError(key)
            /\ passed' = [passed EXCEPT ![key] = @ + 1]
            /\ rlStore' = rlStore
       ELSE /\ rlStore' = store2
            /\ IF OverLimit(e.count)
               THEN /\ rlast' = [key |-> key, status |-> 429, code |-> "RATE_LIMIT_EXCEEDED",
                                 retryAfter |-> CeilSeconds(e.resetAt - now * TickMs)]
                    /\ passed' = IF fresh THEN [passed EXCEPT ![key] = 0] ELSE passed
               ELSE /\ rlast' = [key |-> key, status |-> 200, code |-> "next", retryAfter |-> 0]
                    /\ passed' = [passed EXCEPT ![key] = IF fresh THEN 1 ELSE @ + 1]
    /\ UNCHANGED now
    /\ UNCHANGED otherThanRate

RateInitVars ==
    /\ rlStore = [k \in RateKeys |-> NoWindow]
    /\ rlast = NoRequest
    /\ passed = [k \in RateKeys |-> 0]
    /\ hits = 0

RateNext ==
    \/ \E ip \in Ips, userId \in RateUsers : rateLimiter(ip, userId)
    \/ Tick

\* the Redis server may become unreachable and reachable again at any time
RateOutageNext ==
    \/ \E ip \in Ips, userId \in RateUsers : rateLimiter(ip, userId)
    \/ StoreFlip
    \/ Tick

\* ------------------------------------------------------------------------
\* The route stack of /payments (routes/payment.routes.ts)
\* ------------------------------------------------------------------------
\* Every mutating route is registered as
\*   router.post(path, authenticate, idempotency, rateLimit({...}), handler)
\* and Express runs the middlewares of a route in the order of registration.
\* The limiter's window (60 s) is longer than the runs studied here, so its
\* counters are never reset.
MaxPipeReqs == 3
InitiateMax == 2
CancelMax == 1

PipeReqIds == 1..MaxPipeReqs
PipeRoutes == {"initiate", "confirm", "cancel"}
\* max: env('RATE_LIMIT_<ROUTE>_MAX', 5 | 5 | 3), scaled down
routeMax(route) == IF route = "cancel" THEN CancelMax ELSE InitiateMax
\* keyGenerator: `rl:${route}:${req.user?.id ?? ip}`; req.user is set by authenticate
makeKeyGenerator(route, userId) == <<route, userId>>
RouteKeys == PipeRoutes \X Actors

IdlePipeReq ==
    [pc |-> "idle", route |-> "none", user |-> "none", key |-> "none",
     trace |-> <<>>, status |-> 0, code |-> "none"]

otherThanPipe == <<walletVars, payVars, idemVars, rateVars, now>>

\* authenticate, then idempotency up to its lookup: a request without a
\* valid token is answered 401 by authenticate; otherwise the gate looks the
\* key up, replays a cached answer, or installs the res.json interceptor and
\* calls next(), which is the limiter
routeEnter(r, route, userId, key, tokenOk) ==
    /\ pipe.req[r].pc = "idle"
    /\ \A q \in PipeReqIds : q < r => pipe.req[q].pc # "idle"
    /\ LET ck == cacheKeyOf(userId, key)
           cached == storeGet(pipe.cache, ck, now)
           start == [IdlePipeReq EXCEPT !.route = route, !.user = userId, !.key = key]
       IN
       pipe' = [pipe EXCEPT !.req[r] =
          IF ~tokenOk
          THEN [start EXCEPT !.pc = "done", !.trace = <<"authenticate">>,
                             !.status = 401, !.code = "AUTHENTICATION_ERROR"]
          ELSE IF cached # NoEntry
          THEN [start EXCEPT !.pc = "done", !.trace = <<"authenticate", "idempotency">>,
                             !.status = cached.statusCode, !.code = "REPLAY"]
          ELSE [start EXCEPT !.pc = "rateLimit",
                             !.trace = <<"authenticate", "idempotency">>]]
    /\ UNCHANGED otherThanPipe

\* rateLimit({windowMs, max, keyGenerator, message}): the hit is counted
\* under the route's key; above max the limiter answers 429 with
\* rateLimitResponse and the handler is not called.  The limiter answers
\* through the response object the gate has wrapped, so its 429 may be
\* stored under the request's idempotency key (viaJson) or not.
routeRateLimit(r, viaJson) ==
    /\ pipe.req[r].pc = "rateLimit"
    /\ LET q == pipe.req[r]
           k == makeKeyGenerator(q.route, q.user)
           hitsNow == pipe.count[k] + 1
           limited == hitsNow > routeMax(q.route)
           entry == [statusCode |-> 429, body |-> 0, expiresAt |-> now + IdemTtl]
       IN
       pipe' = [pipe EXCEPT
          !.count[k] = hitsNow,
          !.cache = IF limited /\ viaJson
                    THEN storeSet(storeKind, pipe.cache, cacheKeyOf(q.user, q.key), entry, now)
                    ELSE @,
          !.req[r] = IF limited
                     THEN [q EXCEPT !.pc = "done", !.trace = Append(q.trace, "rateLimit"),
                                    !.status = 429, !.code = "RATE_LIMIT_EXCEEDED"]
                     ELSE [q EXCEPT !.pc = "handler",
                                    !.trace = Append(q.trace, "rateLimit")]]
    /\ UNCHANGED otherThanPipe

\* initiatePayment / confirmPayment / cancelPayment: the engine runs and
\* answers through the intercepted res.json, which stores the answer
routeHandler(r, statusCode) ==
    /\ pipe.req[r].pc = "handler"
    /\ LET q == pipe.req[r]
           entry == [statusCode |-> statusCode, body |-> pipe.ran + 1,
                     expiresAt |-> now + IdemTtl]
       IN
       pipe' = [pipe EXCEPT
          !.ran = @ + 1,
          !.cache = storeSet(storeKind, pipe.cache, cacheKeyOf(q.user, q.key), entry, now),
          !.req[r] = [q EXCEPT !.pc = "done", !.trace = Append(q.trace, "handler"),
                               !.status = statusCode, !.code = "HANDLED"]]
    /\ UNCHANGED otherThanPipe

PipeInitVars ==
    pipe = [req |-> [r \in PipeReqIds |-> IdlePipeReq],
            count |-> [k \in RouteKeys |-> 0],
            cache |-> [ck \in CacheKeys |-> NoEntry],
            ran |-> 0]

PipeNext ==
    \/ \E r \in PipeReqIds, route \in PipeRoutes, userId \in Actors, key \in IdemKeys,
          tokenOk \in BOOLEAN : routeEnter(r, route, userId, key, tokenOk)
    \/ \E r \in PipeReqIds, viaJson \in BOOLEAN : routeRateLimit(r, viaJson)
    \/ \E r \in PipeReqIds, statusCode \in HandlerStatuses : routeHandler(r, statusCode)

\* ------------------------------------------------------------------------
\* Specifications
\* ------------------------------------------------------------------------
\* the subsystems not under study are at rest: no request has been made
EmptyWallets == [w \in WalletIds |-> 0]

InitWallet ==
    /\ WalletInitVars /\ PipeInitVars
    /\ PayInitVars /\ RateInitVars /\ now = 0
    /\ IdemInitVars /\ storeKind = "memory"

InitPay ==
    /\ WalletInitVars /\ balance = EmptyWallets /\ PipeInitVars
    /\ PayInitVars /\ RateInitVars /\ now = 0
    /\ IdemInitVars /\ storeKind = "memory"

InitIdem ==
    /\ WalletInitVars /\ balance = EmptyWallets /\ PipeInitVars
    /\ PayInitVars /\ RateInitVars /\ now = 0
    /\ IdemInitVars

\* REDIS_URL is set: the idempotency store is the Redis one
InitIdemOutage == InitIdem /\ storeKind = "redis"

InitRate ==
    /\ WalletInitVars /\ balance = EmptyWallets /\ PipeInitVars
    /\ PayInitVars /\ RateInitVars /\ now = 0
    /\ IdemInitVars /\ storeKind = "memory"

\* REDIS_URL is set: the rate-limit store is the Redis one
InitRateOutage ==
    /\ WalletInitVars /\ balance = EmptyWallets /\ PipeInitVars
    /\ PayInitVars /\ RateInitVars /\ now = 0
    /\ IdemInitVars /\ storeKind = "redis"

SpecWallet == InitWallet /\ [][WalletNext]_vars

SpecPay == InitPay /\ [][PayNext]_vars

SpecIdem == InitIdem /\ [][IdemNext]_vars

SpecRate == InitRate /\ [][RateNext]_vars

SpecRateOutage == InitRateOutage /\ [][RateOutageNext]_vars

SpecIdemOutage == InitIdemOutage /\ [][IdemOutageNext]_vars

InitIdemHeader == InitIdem

SpecIdemHeader == InitIdemHeader /\ [][IdemHeaderNext]_vars

InitPipeline == InitIdem

SpecPipeline == InitPipeline /\ [][PipeNext]_vars

\* ------------------------------------------------------------------------
\* Claims on the wallet ledger
\* ------------------------------------------------------------------------

\* C1: in every committed state reachable through any sequence or
\* interleaving of deposit, withdraw and transfer requests, every wallet's
\* balance is >= 0.
C1_BalanceNeverNegative == \A w \in WalletIds : balance[w] >= 0

\* two finished withdraw requests for the same amount on the same wallet,
\* the only requests of the run, whose wallet started with a balance that
\* covers exactly one of them; both were in flight together when neither
\* saw the other's commit, and neither met a database error
ConcurrentIdenticalWithdraws(r1, r2) ==
    /\ r1 # r2
    /\ wreq[r1].pc = "done" /\ wreq[r2].pc = "done"
    /\ wreq[r1].op = "withdraw" /\ wreq[r2].op = "withdraw"
    /\ wreq[r1].id = wreq[r2].id
    /\ wreq[r1].amount = wreq[r2].amount
    /\ initBalance[wreq[r1].id] >= wreq[r1].amount
    /\ initBalance[wreq[r1].id] < 2 * wreq[r1].amount
    /\ \A q \in WalletReqIds \ {r1, r2} : wreq[q].pc = "idle"

\* C2: of two concurrent withdraw requests for the same amount on a wallet
\* whose balance covers only one of them, exactly one succeeds and the other
\* is rejected with INSUFFICIENT_BALANCE.
C2_ExactlyOneWithdrawSucceeds ==
    \A r1, r2 \in WalletReqIds :
        ConcurrentIdenticalWithdraws(r1, r2) =>
            \/ wreq[r1].status = 200 /\ wreq[r2].code = "INSUFFICIENT_BALANCE"
            \/ wreq[r2].status = 200 /\ wreq[r1].code = "INSUFFICIENT_BALANCE"

\* request r is answered INSUFFICIENT_BALANCE in this step
RejectedForBalance(r) ==
    /\ wreq[r].pc # "done" /\ wreq'[r].pc = "done"
    /\ wreq'[r].code = "INSUFFICIENT_BALANCE"

\* C11: every withdraw or transfer that is rejected for insufficient balance
\* leaves a new audit record of the rejected attempt for its wallet.
C11_RejectionIsAudited ==
    [][\A r \in WalletReqIds : RejectedForBalance(r) =>
          \E a \in walletAudit' \ walletAudit : a.entityId = wreq'[r].id]_vars

\* request r, for a supported asset and existing wallets, enters the given
\* handler in this step with an amount larger than the balance of the wallet
\* it debits, as read by that handler inside its transaction
StartsOverBalance(r, op) ==
    /\ wreq[r].pc = "idle" /\ wreq'[r].pc # "idle"
    /\ wreq'[r].op = op
    /\ wreq'[r].amount > balance[wreq'[r].id]

\* the rejection of C16 and C17: answered 422 INSUFFICIENT_BALANCE, no
\* balance changed, no ledger entry created
RejectedUntouched(r) ==
    /\ wreq'[r].pc = "done"
    /\ wreq'[r].status = 422 /\ wreq'[r].code = "INSUFFICIENT_BALANCE"
    /\ balance' = balance
    /\ ledger' = ledger

\* C16: a withdraw whose amount exceeds the wallet's balance is rejected
\* with INSUFFICIENT_BALANCE; the balance is unchanged and no ledger entry
\* is created.
C16_WithdrawOverBalanceRejected ==
    [][\A r \in WalletReqIds :
          StartsOverBalance(r, "withdraw") => RejectedUntouched(r)]_vars

\* a withdraw was rejected on a funded wallet whose balance is still the
\* one the run started from
C16_Witness ==
    \E r \in WalletReqIds :
        /\ wreq[r].pc = "done" /\ wreq[r].op = "withdraw" /\ wreq[r].status = 422
        /\ balance[wreq[r].id] = initBalance[wreq[r].id]
        /\ balance[wreq[r].id] > 0
        /\ wreq[r].amount > balance[wreq[r].id]
        /\ ledger = {}

\* C17: a transfer whose amount exceeds the source wallet's balance is
\* rejected with INSUFFICIENT_BALANCE; neither wallet's balance changes and
\* no ledger entry is created.
C17_TransferOverBalanceRejected ==
    [][\A r \in WalletReqIds :
          StartsOverBalance(r, "transfer") => RejectedUntouched(r)]_vars

\* a transfer was rejected while the destination holds more than the
\* source, and both wallets hold what the run started from
C17_Witness ==
    \E r \in WalletReqIds :
        /\ wreq[r].pc = "done" /\ wreq[r].op = "transfer" /\ wreq[r].status = 422
        /\ wreq[r].amount > balance[wreq[r].id]
        /\ balance[wreq[r].to] > balance[wreq[r].id]
        /\ balance = initBalance
        /\ ledger = {}

\* request r is received in this step and carries an asset code that is
\* not on the allow-list
StartsWithUnsupportedAsset(r) ==
    /\ wreq[r].pc = "idle" /\ wreq'[r].pc # "idle"
    /\ wreq'[r].asset \notin getSupportedCurrencies

Commits(r) == wreq[r].pc = "update" /\ wreq'[r].pc = "done" /\ wreq'[r].status = 200

\* C33: the before and after balances stored in the audit record of a
\* committed deposit, withdrawal or transfer equal the wallet's committed
\* balance immediately before and immediately after that mutation.
C33_AuditHoldsCommittedBalances ==
    [][\A r \in WalletReqIds : Commits(r) =>
          \A a \in walletAudit' \ walletAudit :
              a.before = balance[a.entityId] /\ a.after = balance'[a.entityId]]_vars

\* what a ledger row adds to the balance of its wallet
SignedAmount(row) ==
    IF row.type = "deposit" \/ row.direction = "credit" THEN row.amount
    ELSE 0 - row.amount

RECURSIVE SumOfRows(_)
SumOfRows(rows) ==
    IF rows = {} THEN 0
    ELSE LET row == CHOOSE x \in rows : TRUE
         IN SignedAmount(row) + SumOfRows(rows \ {row})

LedgerOf(w) == {row \in ledger : row.wallet_id = w}

RECURSIVE SumOfBalances(_, _)
SumOfBalances(bal, ws) ==
    IF ws = {} THEN 0
    ELSE LET w == CHOOSE x \in ws : TRUE
         IN bal[w] + SumOfBalances(bal, ws \ {w})

NewAuditRows(r) == {a \in walletAudit' \ walletAudit : a.req = r}
NewLedgerRows(r) == {row \in ledger' \ ledger : row.req = r}

\* how many wallets the operation of request r touches
RowsPerOp(r) == IF wreq[r].op = "transfer" THEN 2 ELSE 1

\* C36: a deposit, withdrawal or transfer is all-or-nothing: the step that
\* commits it changes the balance(s) and adds its ledger row(s) and its
\* audit row(s) together; a request that does not commit, also one that
\* fails inside its transaction, adds no row and changes no balance.
C36_AllOrNothing ==
    [][/\ \A r \in WalletReqIds :
             IF Commits(r)
             THEN /\ Cardinality(NewAuditRows(r)) = RowsPerOp(r)
                  /\ Cardinality(NewLedgerRows(r)) = RowsPerOp(r)
                  /\ balance'[wreq[r].id] # balance[wreq[r].id]
                  /\ wreq[r].op = "transfer" => balance'[wreq[r].to] # balance[wreq[r].to]
             ELSE NewAuditRows(r) = {} /\ NewLedgerRows(r) = {}
       /\ (\A r \in WalletReqIds : ~Commits(r)) => balance' = balance]_vars

\* one request committed with its rows, the other failed inside its
\* transaction and left no row
C36_Witness ==
    \E r1, r2 \in WalletReqIds :
        /\ wreq[r1].pc = "done" /\ wreq[r1].status = 200
        /\ \E a \in walletAudit : a.req = r1
        /\ \E row \in ledger : row.req = r1
        /\ wreq[r2].pc = "done" /\ wreq[r2].code = "INTERNAL_ERROR"
        /\ \A a \in walletAudit : a.req # r2
        /\ \A row \in ledger : row.req # r2

\* ------------------------------------------------------------------------
\* Claims on the payment state machine
\* ------------------------------------------------------------------------

\* C5: once a payment's committed status is completed, cancelled or failed,
\* no later approve, complete, cancel or fail request changes its status.
C5_TerminalStatusIsFinal ==
    [][payment.status \in TerminalStatuses => payment'.status = payment.status]_vars

\* the guard table of the code, as pairs (current status, target status)
GuardTable ==
    {<<"created", "approved">>, <<"created", "cancelled">>, <<"created", "failed">>,
     <<"approved", "completed">>, <<"approved", "cancelled">>, <<"approved", "failed">>}

\* request r is answered in this step, after its guard read a status from
\* which its target is not in the guard table
AnsweredOutsideTable(r) ==
    /\ preq[r].pc # "done" /\ preq'[r].pc = "done"
    /\ preq'[r].op # "none"
    /\ <<preq'[r].from, TargetOf(preq'[r].op)>> \notin GuardTable

C7_AmountImmutable ==
    [][payment.status # "absent" => payment'.amount = payment.amount]_vars

\* a payment went through approval and completion, and another request on
\* it was rejected
C7_Witness ==
    /\ payment.status = "completed" /\ payment.approved_at
    /\ \E r \in PayReqIds : preq[r].pc = "done" /\ preq[r].status = 409
    /\ \E r \in PayReqIds : preq[r].pc = "done" /\ preq[r].op = "complete"
                            /\ preq[r].status = 200

PiCallEnds(r) == preq[r].pc = "pi" /\ preq'[r] # preq[r]

\* C13: when the Pi call made during approve or complete times out, the
\* caller receives PI_TIMEOUT (HTTP 504), an answer no other outcome of the
\* call produces, the request ends there without reaching its write, and
\* the payment row, its status included, is left as the handler found it.
C13_TimeoutLeavesStatus ==
    [][\A r \in PayReqIds : PiCallEnds(r) =>
          /\ (preq'[r].code = "PI_TIMEOUT") = (preq'[r].status = 504)
          /\ preq'[r].code = "PI_TIMEOUT" =>
                 /\ preq'[r].pc = "done"
                 /\ payment' = payment]_vars

\* a payment was approved through Pi, then a complete request timed out
\* at Pi, and the payment is still approved
C13_Witness ==
    /\ payment.status = "approved" /\ ~payment.completed_at /\ ~payment.failed_at
    /\ piCalls = [approve |-> 1, complete |-> 1]
    /\ \E r1, r2 \in PayReqIds :
          /\ preq[r1].pc = "done" /\ preq[r1].op = "approve" /\ preq[r1].status = 200
          /\ preq[r2].pc = "done" /\ preq[r2].code = "PI_TIMEOUT"
          /\ \A q \in PayReqIds \ {r1, r2} : preq[q].pc = "idle"

\* request r, a transition request, is answered 200 in this step
Succeeds(r) ==
    /\ preq[r].pc # "done" /\ preq'[r].pc = "done"
    /\ preq'[r].status = 200
    /\ preq'[r].op \in {"approve", "complete", "cancel", "fail"}

\* the row with status `to` and the timestamp of `to` set
StampedRow(row, to) ==
    IF to = "approved" THEN [row EXCEPT !.status = to, !.approved_at = TRUE]
    ELSE IF to = "completed" THEN [row EXCEPT !.status = to, !.completed_at = TRUE]
    ELSE IF to = "cancelled" THEN [row EXCEPT !.status = to, !.cancelled_at = TRUE]
    ELSE [row EXCEPT !.status = to, !.failed_at = TRUE]

CompleteAnswered(r) ==
    /\ preq[r].pc # "done" /\ preq'[r].pc = "done"
    /\ preq'[r].op = "complete"

\* C26: a complete request succeeds only when the payment's status is
\* approved; on a payment in any other status it is rejected with
\* INVALID_STATUS and the payment is not updated.
C26_CompleteOnlyFromApproved ==
    [][\A r \in PayReqIds : CompleteAnswered(r) =>
          IF payment.status = "approved"
          THEN preq'[r].status = 200
          ELSE /\ preq'[r].status = 409 /\ preq'[r].code = "INVALID_STATUS"
               /\ payment' = payment]_vars

\* the requests that committed a transition out of status approved
CommittedFromApproved ==
    {r \in PayReqIds : /\ preq[r].pc = "done" /\ preq[r].status = 200
                       /\ preq[r].from = "approved"
                       /\ preq[r].op \in {"complete", "cancel", "fail"}}

\* C29: of the requests for conflicting transitions of one approved payment
\* that run concurrently, exactly one commits; the others are rejected as
\* invalid transitions.
C29_OneConflictingTransitionCommits == Cardinality(CommittedFromApproved) <= 1

\* the re-check of complete request r runs in this step
RecheckRuns(r) ==
    /\ preq[r].op = "complete" /\ preq[r].pc = "txread"
    /\ preq'[r] # preq[r]

\* C30: the external complete call leaves the payment row alone and is
\* always followed by the re-check inside the transaction; when the status
\* was changed meanwhile to one from which completion is not permitted, the
\* re-check rejects the request and the payment keeps that status.
C30_RecheckRejectsChangedStatus ==
    [][\A r \in PayReqIds :
          /\ (PiCallEnds(r) /\ preq[r].op = "complete" /\ preq'[r].pc # "done") =>
                 preq'[r].pc = "txread" /\ payment' = payment
          /\ (RecheckRuns(r) /\ <<payment.status, "completed">> \notin GuardTable) =>
                 /\ preq'[r].pc = "done"
                 /\ preq'[r].status = 409 /\ preq'[r].code = "INVALID_STATUS"
                 /\ payment' = payment]_vars

\* the Pi call of a complete request was made for an approved payment, a
\* cancel was committed meanwhile, and the complete request was rejected
\* by the re-check: the payment is still cancelled
C30_Witness ==
    /\ payment.status = "cancelled" /\ ~payment.completed_at
    /\ piCalls.complete = 1
    /\ payment.payment_method = "pi"
    /\ \E r1, r2, r3 \in PayReqIds :
          /\ preq[r1] = PayOk("cancel", "approved")
          /\ preq[r2].pc = "done" /\ preq[r2].op = "complete"
          /\ preq[r2].from = "cancelled" /\ preq[r2].status = 409
          /\ preq[r3] = PayOk("approve", "created")
          /\ \A q \in PayReqIds \ {r1, r2, r3} : preq[q].pc = "idle"

\* the audit rows of transitions that were answered 200
TransitionEvents ==
    {"PAYMENT_APPROVED", "PAYMENT_CONFIRMED", "PAYMENT_CANCELLED", "PAYMENT_FAILED"}

\* C31: a payment's status change and the audit record of that change are
\* committed together: each transition that took effect has its audit
\* record, and each audit record of a successful transition belongs to a
\* transition that took effect.
C31_StatusChangeAndAuditTogether ==
    /\ \A r \in PayReqIds :
          (preq[r].pc = "done" /\ preq[r].status = 200) =>
             \E a \in payAudit : /\ a.req = r /\ a.eventType \in TransitionEvents
                                 /\ a.to = TargetOf(preq[r].op)
    /\ \A a \in payAudit :
          a.eventType \in TransitionEvents =>
             preq[a.req].pc = "done" /\ preq[a.req].status = 200

\* C32: over all complete requests for the payment, concurrent or repeated,
\* the processor's complete operation is invoked at most once.
C32_PiCompleteAtMostOnce == piCalls.complete <= 1

\* request r is answered in this step by a guard: it is received, or it is
\* at the check inside its transaction, and it makes no Pi call and no
\* update
GuardAnswers(r) ==
    /\ preq[r].pc \in {"idle", "txread"} /\ preq'[r].pc = "done"
    /\ payment.status # "absent"

\* C39: a failure of a best-effort audit write is swallowed: a rejected
\* transition attempt is answered 409 INVALID_STATUS with the status read
\* and the payment is left as it is, whether or not the audit row could be
\* written.
C39_AuditFailureSwallowed ==
    [][\A r \in PayReqIds : GuardAnswers(r) =>
          /\ preq'[r].status = 409 /\ preq'[r].code = "INVALID_STATUS"
          /\ preq'[r].from = payment.status
          /\ payment' = payment]_vars

\* with the audit table unavailable, a rejected attempt was answered 409
\* and left no audit row; the payment stays completed
C39_Witness ==
    /\ auditDown
    /\ payment.status = "completed"
    /\ \E r \in PayReqIds :
          /\ preq[r].pc = "done" /\ preq[r].code = "INVALID_STATUS"
          /\ preq[r].status = 409 /\ preq[r].from = "completed"
          /\ \A a \in payAudit : a.req # r

\* request r is rejected in this step as an invalid transition
RejectedNow(r) ==
    /\ preq[r].pc # "done" /\ preq'[r].pc = "done"
    /\ preq'[r].code = "INVALID_STATUS"

RecordedUser(r) ==
    IF preq'[r].op = "cancel" \/ (preq'[r].op = "complete" /\ preq[r].pc = "txread")
    THEN preq'[r].actor
    ELSE payment.user_id

Racing(r1, r2) ==
    /\ r1 # r2
    /\ ireq[r1].pc = "done" /\ ireq[r2].pc = "done"
    /\ ireq[r1].ck = ireq[r2].ck
    /\ ireq[r1].miss /\ ireq[r2].miss
    /\ r1 \notin ireq[r2].after /\ r2 \notin ireq[r1].after

\* C3: of two requests with the same actor and key that race on a cache
\* miss, the wrapped operation runs for exactly one, and the other receives
\* the response persisted for the first.
C3_RacingRequestsCollapse ==
    \A r1, r2 \in IdemReqIds :
        Racing(r1, r2) =>
            /\ ireq[r1].exec # ireq[r2].exec
            /\ ireq[r1].resp = ireq[r2].resp

\* r2 repeats r1: same cache key, r1 is the one request of that key that had
\* run the operation and answered when r2 looked the key up, and the lookup
\* happens before r1's entry expires
RepeatsWithinTtl(r1, r2) ==
    /\ r1 # r2
    /\ ireq[r2].pc # "idle"
    /\ ireq[r1].pc = "done" /\ ireq[r1].exec
    /\ ireq[r1].ck = ireq[r2].ck
    /\ {q \in ireq[r2].after : ireq[q].exec} = {r1}
    /\ ireq[r2].getAt <= ireq[r1].respAt + IdemTtl

\* C4: a request that repeats an answered request within the TTL does not
\* invoke the operation again and receives the same status and body.
C4_RepeatIsReplayed ==
    \A r1, r2 \in IdemReqIds :
        RepeatsWithinTtl(r1, r2) =>
            /\ ireq[r2].pc = "done"
            /\ ~ireq[r2].miss /\ ~ireq[r2].exec
            /\ ireq[r2].resp = ireq[r1].resp

\* a repeat sent one tick after the first answer has been replayed, for a
\* success and for a failure response
C4_Witness ==
    \E r1, r2 \in IdemReqIds :
        /\ RepeatsWithinTtl(r1, r2)
        /\ ireq[r2].pc = "done"
        /\ ireq[r2].getAt > ireq[r1].respAt
        /\ ireq[r2].resp = ireq[r1].resp
        /\ ireq[r1].resp.statusCode = 201
        /\ execs = 1

\* C22: when the first response of the wrapped operation is a failure
\* response, a repeat with the same actor and key within the TTL receives
\* that failure status and body, and the operation is not run again.
C22_FailureIsReplayed ==
    \A r1, r2 \in IdemReqIds :
        (RepeatsWithinTtl(r1, r2) /\ ireq[r1].resp.statusCode = 422) =>
            /\ ireq[r2].pc = "done"
            /\ ireq[r2].resp.statusCode = 422
            /\ ireq[r2].resp.body = ireq[r1].resp.body
            /\ ~ireq[r2].exec /\ ~ireq[r2].miss

\* the operation answered 422 once and the repeat, sent a tick later, got
\* the 422 from the cache
C22_Witness ==
    \E r1, r2 \in IdemReqIds :
        /\ RepeatsWithinTtl(r1, r2)
        /\ ireq[r1].resp.statusCode = 422 /\ ireq[r1].exec
        /\ ireq[r2].pc = "done" /\ ~ireq[r2].miss
        /\ ireq[r2].getAt > ireq[r1].respAt
        /\ ireq[r2].resp.statusCode = 422
        /\ execs = 1

\* request r was answered from the cache
Replayed(r) == ireq[r].pc = "done" /\ ~ireq[r].miss /\ ~ireq[r].exec

\* request q has run the wrapped operation for the actor and key of r
RanFor(q, r) ==
    /\ q # r /\ ireq[q].exec
    /\ ireq[q].user = ireq[r].user /\ ireq[q].key = ireq[r].key

\* C21: a response cached for (actor, key) is replayed only to requests of
\* that actor with that key: a replayed answer is the answer of a request
\* with the same actor and key, and a request whose (actor, key) no other
\* request has run the operation for runs it itself.
C21_ReplayOnlyForSameActorAndKey ==
    \A r \in IdemReqIds :
        /\ Replayed(r) =>
              \E q \in IdemReqIds : RanFor(q, r) /\ ireq[q].resp = ireq[r].resp
        /\ (ireq[r].pc # "idle" /\ ~\E q \in IdemReqIds : RanFor(q, r)) => ireq[r].miss

\* the same key is used by another actor one tick after the first actor
\* was answered, within the TTL, and the operation ran again
C21_Witness ==
    \E r1, r2 \in IdemReqIds :
        /\ ireq[r1].pc = "done" /\ ireq[r2].pc = "done"
        /\ ireq[r1].key = ireq[r2].key /\ ireq[r1].user # ireq[r2].user
        /\ ireq[r2].getAt > ireq[r1].respAt
        /\ ireq[r2].getAt <= ireq[r1].respAt + IdemTtl
        /\ ireq[r1].exec /\ ireq[r2].exec
        /\ ireq[r1].resp = [statusCode |-> 201, body |-> 1]
        /\ ireq[r2].resp = [statusCode |-> 201, body |-> 2]

\* request r looks its cache key up in this step
LooksUp(r, ck) == ireq[r].pc = "idle" /\ ireq'[r].pc # "idle" /\ ireq'[r].ck = ck

\* the handler of request r answers in this step
Answers(r) == ireq[r].pc = "handler" /\ ireq'[r].pc = "done"

\* the store holds an entry for ck that has not expired
LiveEntry(ck) == idemStore[ck] # NoEntry /\ now <= idemStore[ck].expiresAt

\* C38: a cached entry is replayed only until its expiry time.  A request
\* that looks its key up after the entry's expiresAt is a miss and goes on
\* to the wrapped operation; when that operation answers, it has run once
\* more and its response is handed to the store with a new TTL: it becomes
\* the entry of the key, except that Redis (SET NX) keeps a live entry
\* that another request has written since the lookup.
C38_ExpiredEntryIsAMiss ==
    [][\A r \in IdemReqIds :
          /\ \A ck \in CacheKeys :
                (LooksUp(r, ck) /\ idemStore[ck] # NoEntry /\ now > idemStore[ck].expiresAt) =>
                    /\ ireq'[r].pc = "handler" /\ ireq'[r].miss
                    /\ ireq'[r].resp = NoResponse
          /\ Answers(r) =>
                /\ execs' = execs + 1 /\ ireq'[r].exec
                /\ IF storeKind = "redis" /\ LiveEntry(ireq[r].ck)
                   THEN idemStore' = idemStore
                   ELSE idemStore'[ireq[r].ck] =
                           [statusCode |-> ireq'[r].resp.statusCode,
                            body |-> ireq'[r].resp.body,
                            expiresAt |-> now + IdemTtl]]_vars

\* the first request was answered and cached; the second one, with the
\* same actor and key, came after the entry had expired, ran the operation
\* again and its response is the entry now
C38_Witness ==
    \E r1, r2 \in IdemReqIds :
        /\ r1 # r2
        /\ ireq[r1].pc = "done" /\ ireq[r1].exec
        /\ ireq[r2].pc = "done" /\ ireq[r2].exec /\ ireq[r2].miss
        /\ ireq[r2].ck = ireq[r1].ck /\ r1 \in ireq[r2].after
        /\ ireq[r2].getAt > ireq[r1].respAt + IdemTtl
        /\ execs = 2
        /\ idemStore[ireq[r2].ck] =
              [statusCode |-> ireq[r2].resp.statusCode, body |-> ireq[r2].resp.body,
               expiresAt |-> ireq[r2].respAt + IdemTtl]

\* request r is received in this step
Received(r) == ireq[r].pc = "idle" /\ ireq'[r].pc # "idle"

\* request r is answered 400 with the given code at once: the wrapped
\* operation is not invoked and the store is left alone
RefusedWith(r, code) ==
    /\ ireq'[r].pc = "done" /\ ~ireq'[r].exec /\ ~ireq'[r].miss
    /\ ireq'[r].resp.statusCode = 400 /\ ireq'[r].code = code
    /\ execs' = execs /\ idemStore' = idemStore

\* C28: a request with no idempotency key is rejected with
\* MISSING_IDEMPOTENCY_KEY and one whose key is longer than 255 characters
\* with INVALID_IDEMPOTENCY_KEY; the wrapped operation is not invoked and
\* nothing is cached.  Keys of 1 to 255 characters are not refused.
C28_BadKeyRefused ==
    [][\A r \in IdemReqIds : Received(r) =>
          IF ireq'[r].key = NoHeader THEN RefusedWith(r, "MISSING_IDEMPOTENCY_KEY")
          ELSE IF keyLength(ireq'[r].key) > 255 THEN RefusedWith(r, "INVALID_IDEMPOTENCY_KEY")
          ELSE ireq'[r].resp.statusCode # 400]_vars

\* one request came without the header and one with a key of 256
\* characters; both were refused, nothing ran and nothing is cached
C28_Witness ==
    /\ \E r1, r2 \in IdemReqIds :
          /\ ireq[r1].pc = "done" /\ ireq[r1].key = NoHeader
          /\ ireq[r1].code = "MISSING_IDEMPOTENCY_KEY"
          /\ ireq[r2].pc = "done" /\ ireq[r2].key = LongKey
          /\ ireq[r2].code = "INVALID_IDEMPOTENCY_KEY"
    /\ execs = 0
    /\ \A ck \in CacheKeys : idemStore[ck] = NoEntry

\* C12: while the idempotency store fails, a request is neither blocked nor
\* failed: a lookup that fails lets the request through to the wrapped
\* operation, and a write that fails leaves the operation's real response
\* as the answer, with nothing cached.
C12_StoreFailurePassesThrough ==
    [][\A r \in IdemReqIds :
          (storeDown /\ ireq'[r] # ireq[r]) =>
             IF ireq[r].pc = "idle"
             THEN ireq'[r].pc = "handler"
             ELSE /\ ireq'[r].pc = "done" /\ ireq'[r].exec
                  /\ ireq'[r].resp.statusCode \in HandlerStatuses
                  /\ idemStore' = idemStore]_vars

\* C14: an entry stored under a cache key is not replaced by a later write
\* while it has not expired, so every lookup within the TTL returns the
\* response stored first.
C14_FirstWriterWins ==
    [][\A ck \in CacheKeys :
          (idemStore[ck] # NoEntry /\ now <= idemStore[ck].expiresAt)
             => idemStore'[ck] = idemStore[ck]]_vars

\* ------------------------------------------------------------------------
\* Rate limiter claims (SpecRate; the rate-limit store is reachable)
\* ------------------------------------------------------------------------
\* the window of key k that is open at time t
WindowOpen(k, t) == rlStore[k] # NoWindow /\ t <= rlStore[k].resetAt

\* the request just handled was passed on
Accepted(k) ==
    /\ rlast'.key = k /\ rlast'.status = 200
    /\ passed'[k] = (IF WindowOpen(k, now * TickMs) THEN passed[k] ELSE 0) + 1

\* the request just handled was answered 429
Rejected(k) ==
    /\ rlast'.key = k /\ rlast'.status = 429 /\ rlast'.code = "RATE_LIMIT_EXCEEDED"
    /\ passed'[k] = passed[k]

\* C9: per key and window the first MaxRequests requests are accepted and
\* every further request of the window is rejected with RATE_LIMIT_EXCEEDED.
C9_FirstLimitAccepted ==
    [][hits' = hits + 1 =>
          \E k \in RateKeys :
              IF WindowOpen(k, now * TickMs) /\ passed[k] >= MaxRequests
              THEN Rejected(k)
              ELSE Accepted(k)]_vars

\* a key has used up its window and its last request was rejected, while
\* another key is still being served
C9_Witness ==
    /\ rlast.status = 429
    /\ passed[rlast.key] = MaxRequests
    /\ rlStore[rlast.key].count > MaxRequests
    /\ \E k \in RateKeys : k # rlast.key /\ passed[k] = 1

\* the limiter handles a request of key k in this step
Hit(k) == hits' = hits + 1 /\ rlast'.key = k

\* the window of key k is open at time t in the store in use: the in-memory
\* store starts a new window when t > resetAt, Redis has dropped the key
\* when t >= resetAt
WindowOpenIn(kind, k, t) ==
    /\ rlStore[k] # NoWindow
    /\ IF kind = "redis" THEN t < rlStore[k].resetAt ELSE t <= rlStore[k].resetAt

\* C37: while a window is open for a key, each hit the store counts
\* increases the key's count by exactly one and leaves its resetAt
\* unchanged: the boundary is set by the first hit of the window only.
C37_HitKeepsWindowBoundary ==
    [][\A k \in RateKeys :
          (Hit(k) /\ ~storeDown /\ WindowOpenIn(storeKind, k, now * TickMs)) =>
              /\ rlStore'[k].count = rlStore[k].count + 1
              /\ rlStore'[k].resetAt = rlStore[k].resetAt]_vars

\* a key was hit again at a later time inside its window: it counts two
\* hits and its window still ends where the first hit put it
C37_Witness ==
    /\ rlast # NoRequest
    /\ rlStore[rlast.key] # NoWindow
    /\ rlStore[rlast.key].count = 2
    /\ hits = 2 /\ now > 0
    /\ rlStore[rlast.key].resetAt = windowMs
    /\ now * TickMs < rlStore[rlast.key].resetAt

\* C18: every rate-limit rejection carries a retry-after value that is a
\* positive whole number of seconds, ceil((windowResetAt - now) / 1000).
C18_RetryAfterPositive ==
    [][\A k \in RateKeys : (Hit(k) /\ rlast'.status = 429) =>
          /\ rlast'.retryAfter = CeilSeconds(rlStore'[k].resetAt - now * TickMs)
          /\ rlast'.retryAfter >= 1]_vars

\* C19: after a key's window has elapsed, the next hit on the key starts a
\* new window with count 1 and resetAt = now + windowMs and is accepted,
\* however many hits the previous window had.
C19_ElapsedWindowRestarts ==
    [][\A k \in RateKeys :
          (Hit(k) /\ rlStore[k] # NoWindow /\ now * TickMs > rlStore[k].resetAt) =>
              /\ rlStore'[k] = [count |-> 1, resetAt |-> now * TickMs + windowMs]
              /\ rlast'.status = 200]_vars

\* one key took more hits than the limit in its first window, so its last
\* hit there was rejected; the window elapsed and the key's next hit was
\* accepted as the first of a new window
C19_Witness ==
    /\ hits = MaxRequests + 2
    /\ rlast.status = 200
    /\ rlStore[rlast.key] = [count |-> 1, resetAt |-> now * TickMs + windowMs]
    /\ passed[rlast.key] = 1
    /\ \A k \in RateKeys \ {rlast.key} : rlStore[k] = NoWindow

\* C20: a request on one key never changes the count or window of another
\* key, and a key below its limit is accepted whatever the other keys'
\* counts are.
C20_KeysAreIndependent ==
    [][\A k \in RateKeys : Hit(k) =>
          /\ \A k2 \in RateKeys \ {k} : rlStore'[k2] = rlStore[k2] /\ passed'[k2] = passed[k2]
          /\ (~WindowOpen(k, now * TickMs) \/ rlStore[k].count < MaxRequests)
                 => rlast'.status = 200]_vars

\* a request is accepted on one key while another key, over its limit, is
\* still inside the window in which it is being rejected
C20_Witness ==
    /\ rlast.status = 200
    /\ rlStore[rlast.key].count >= 1
    /\ \E k2 \in RateKeys \ {rlast.key} :
          /\ rlStore[k2].count > MaxRequests
          /\ WindowOpen(k2, now * TickMs)
          /\ passed[k2] = MaxRequests

\* C24: all requests of one authenticated actor are counted in one window
\* keyed by the actor, whatever network origin they come from: requests of
\* the actor from two origins never open two windows.
C24_OneWindowPerActor ==
    \A userId \in RateUsers \ {"anonymous"} : \A ip1, ip2 \in Ips :
        (rlStore[rateKeyOf(ip1, userId)] # NoWindow /\ rlStore[rateKeyOf(ip2, userId)] # NoWindow)
            => rateKeyOf(ip1, userId) = rateKeyOf(ip2, userId)

\* C23: when the rate-limit store's increment fails, the request is passed
\* on to the wrapped operation and is not rejected with RATE_LIMIT_EXCEEDED;
\* the counters stay as they were.
C23_StoreErrorFailsOpen ==
    [][\A k \in RateKeys : (Hit(k) /\ storeDown) =>
          /\ rlast'.status = 200 /\ rlast'.code = "next"
          /\ rlStore' = rlStore]_vars

\* a key that is over its limit inside its window has a request passed on
\* while the store is unreachable
C23_Witness ==
    /\ storeDown
    /\ rlast.status = 200
    /\ rlStore[rlast.key].count > MaxRequests
    /\ now * TickMs < rlStore[rlast.key].resetAt
    /\ hits = MaxRequests + 2

\* ------------------------------------------------------------------------
\* Claims on the route stack
\* ------------------------------------------------------------------------
\* position of a stage in the trace of a request, 0 when it was not reached
StageAt(trace, stage) ==
    IF \E i \in 1..Len(trace) : trace[i] = stage
    THEN CHOOSE i \in 1..Len(trace) : trace[i] = stage
    ELSE 0

\* C15: every mutating payment request is checked by the rate limiter before
\* the idempotency gate and by the gate before the engine, so a request the
\* limiter rejected has reached neither the gate nor the engine.
C15_LimiterBeforeGate ==
    \A r \in PipeReqIds :
       LET t == pipe.req[r].trace IN
       /\ StageAt(t, "idempotency") > 0 =>
             /\ StageAt(t, "rateLimit") > 0
             /\ StageAt(t, "rateLimit") < StageAt(t, "idempotency")
       /\ StageAt(t, "handler") > 0 =>
             /\ StageAt(t, "idempotency") > 0
             /\ StageAt(t, "idempotency") < StageAt(t, "handler")
       /\ pipe.req[r].code = "RATE_LIMIT_EXCEEDED" =>
             StageAt(t, "idempotency") = 0 /\ StageAt(t, "handler") = 0

====
